---- MODULE Spec2Model ----
(***************************************************************************)
(* Verification model of the recursive ray tracer (render, cast_ray,       *)
(* scene_intersect, Sphere::ray_intersect, refract, reflect).              *)
(*                                                                         *)
(* Floats are modelled as fixed-point integers with FP units per 1.0, so   *)
(* the surface offset 1e-3 of cast_ray is exactly one unit.  Products and  *)
(* quotients round toward zero, which keeps the sign symmetry of IEEE      *)
(* arithmetic (a * -b = -(a * b)).  Vectors are triples <<x, y, z>>.       *)
(***************************************************************************)
EXTENDS Integers, Sequences, FiniteSets, TLC

(* --------------------------- scale and bounds -------------------------- *)
FP == 10 * 10 * 10         \* fixed-point units per 1.0 (so 1e-3 is one unit)
MaxSpheres == 2            \* longest sphere sequence handed to scene_intersect
\* std::numeric_limits<float>::max(): above every distance the model computes
FLT_MAX == 2000000000

(* --------------------------- float helpers ----------------------------- *)
Abs(a) == IF a < 0 THEN -a ELSE a
Sgn(a) == IF a < 0 THEN -1 ELSE 1
Max(a, b) == IF a < b THEN b ELSE a      \* std::max(a, b)
Min(a, b) == IF b < a THEN b ELSE a      \* std::min(a, b)
Mul(a, b) == Sgn(a) * Sgn(b) * ((Abs(a) * Abs(b)) \div FP)
Div(a, b) == Sgn(a) * Sgn(b) * ((Abs(a) * FP) \div Abs(b))
Trunc(a) == Sgn(a) * (Abs(a) \div FP)    \* the cast int(a)

RECURSIVE SqrtSearch(_, _, _)
SqrtSearch(n, lo, hi) ==
    IF lo >= hi THEN lo
    ELSE LET mid == (lo + hi + 1) \div 2
         IN  IF mid * mid <= n THEN SqrtSearch(n, mid, hi)
                               ELSE SqrtSearch(n, lo, mid - 1)
Sqrt(a) == SqrtSearch(a * FP, 0, Min(a * FP, 46340))   \* sqrt(a), a >= 0

(* ------------------------------ vec3 ----------------------------------- *)
VAdd(a, b) == <<a[1] + b[1], a[2] + b[2], a[3] + b[3]>>
VSub(a, b) == <<a[1] - b[1], a[2] - b[2], a[3] - b[3]>>
VNeg(a) == <<-a[1], -a[2], -a[3]>>
VScale(a, s) == <<Mul(a[1], s), Mul(a[2], s), Mul(a[3], s)>>
Dot(a, b) == Mul(a[1], b[1]) + Mul(a[2], b[2]) + Mul(a[3], b[3])
Norm(a) == Sqrt(Dot(a, a))
Normalize(a) == LET n == Norm(a) IN <<Div(a[1], n), Div(a[2], n), Div(a[3], n)>>

(* ---------------------------- Material --------------------------------- *)
\* specular_exponent is kept as a plain integer (it is only used as the
\* exponent of pow); every other field is fixed-point.
DefaultMaterial ==
    [refractive_index |-> FP, albedo |-> <<FP, 0, 0, 0>>,
     diffuse_color |-> <<0, 0, 0>>, specular_exponent |-> 0]
ivory ==
    [refractive_index |-> 1000, albedo |-> <<600, 300, 100, 0>>,
     diffuse_color |-> <<400, 400, 300>>, specular_exponent |-> 50]
glass ==
    [refractive_index |-> 1500, albedo |-> <<0, 500, 100, 800>>,
     diffuse_color |-> <<600, 700, 800>>, specular_exponent |-> 125]
red_rubber ==
    [refractive_index |-> 1000, albedo |-> <<900, 100, 0, 0>>,
     diffuse_color |-> <<300, 100, 100>>, specular_exponent |-> 10]
mirror ==
    [refractive_index |-> 1000, albedo |-> <<0, 10000, 800, 0>>,
     diffuse_color |-> <<1000, 1000, 1000>>, specular_exponent |-> 1425]

Sphere(c, r, m) == [center |-> c, radius |-> r, material |-> m]

(* ----------------------- Sphere::ray_intersect ------------------------- *)
\* The near root is dropped instead of replaced by the far root.
ray_intersect_nofar(s, orig, dir) ==
    LET dist == VSub(s.center, orig)
        projToOrigin == Dot(dist, dir)
        d2 == Dot(dist, dist) - Mul(projToOrigin, projToOrigin)
        r2 == Mul(s.radius, s.radius)
    IN  IF d2 > r2 THEN [hit |-> FALSE, t0 |-> 0]
        ELSE LET t0 == projToOrigin - Sqrt(r2 - d2)
             IN  IF t0 < 0 THEN [hit |-> FALSE, t0 |-> 0]
                 ELSE [hit |-> TRUE, t0 |-> t0]

\* Result [hit, t0]; t0 is meaningful only when hit is TRUE.
ray_intersect(s, orig, dir) ==
    LET dist == VSub(s.center, orig)
        projToOrigin == Dot(dist, dir)
        d2 == Dot(dist, dist) - Mul(projToOrigin, projToOrigin)
        r2 == Mul(s.radius, s.radius)
    IN  IF d2 > r2 THEN [hit |-> FALSE, t0 |-> 0]
        ELSE LET projToIntersections == Sqrt(r2 - d2)
                 t0 == projToOrigin - projToIntersections
                 t1 == projToOrigin + projToIntersections
                 t == IF t0 < 0 THEN t1 ELSE t0
             IN  IF t < 0 THEN [hit |-> FALSE, t0 |-> 0]
                 ELSE [hit |-> TRUE, t0 |-> t]

(* --------------------------- scene_intersect --------------------------- *)
\* State of the locals and out-parameters before the sphere loop.  The
\* callers pass default-constructed hit, N and material.
scene_intersect_entry(material) ==
    [spheres_dist |-> FLT_MAX, hit |-> <<0, 0, 0>>, N |-> <<0, 0, 0>>,
     material |-> material]

\* One iteration of the sphere loop without the comparison of distances.
sphere_iteration_nocompare(st, s, orig, dir) ==
    LET ri == ray_intersect(s, orig, dir)
    IN  IF ri.hit
        THEN LET hit == VAdd(orig, VScale(dir, ri.t0))
             IN  [spheres_dist |-> ri.t0, hit |-> hit,
                  N |-> Normalize(VSub(hit, s.center)),
                  material |-> s.material]
        ELSE st

\* One iteration of the sphere loop.
sphere_iteration(st, s, orig, dir) ==
    LET ri == ray_intersect(s, orig, dir)
    IN  IF ri.hit /\ ri.t0 < st.spheres_dist
        THEN LET hit == VAdd(orig, VScale(dir, ri.t0))
             IN  [spheres_dist |-> ri.t0, hit |-> hit,
                  N |-> Normalize(VSub(hit, s.center)),
                  material |-> s.material]
        ELSE st

RECURSIVE sphere_loop(_, _, _, _, _)
sphere_loop(st, spheres, i, orig, dir) ==
    IF i > Len(spheres) THEN st
    ELSE sphere_loop(sphere_iteration(st, spheres[i], orig, dir),
                     spheres, i + 1, orig, dir)

\* Shade of the checkerboard at a hit point, already multiplied by .3
checker_color(hit) ==
    LET parity == (Trunc(Mul(500, hit[1]) + 1000 * FP)
                   + Trunc(Mul(500, hit[3]))) % 2
        c == IF parity = 1 THEN <<FP, FP, FP>> ELSE <<FP, 700, 300>>
    IN  VScale(c, 300)

\* The plane test and the return statement, given the state after the loop.
plane_and_return(st, orig, dir) ==
    LET tested == Abs(dir[2]) > 1
        d == IF tested THEN Div(-(orig[2] + 4 * FP), dir[2]) ELSE 0
        pt == VAdd(orig, VScale(dir, d))
        taken == /\ tested
                 /\ d > 0 /\ Abs(pt[1]) < 10 * FP
                 /\ pt[3] > 10 * FP /\ pt[3] < 30 * FP
                 /\ d < st.spheres_dist
        checkerboard_dist == IF taken THEN d ELSE FLT_MAX
    IN  [flag |-> Min(st.spheres_dist, checkerboard_dist) < 1000 * FP,
         hit |-> IF taken THEN pt ELSE st.hit,
         N |-> IF taken THEN <<0, FP, 0>> ELSE st.N,
         material |-> IF taken
                      THEN [st.material EXCEPT !.diffuse_color = checker_color(pt)]
                      ELSE st.material,
         spheres_dist |-> st.spheres_dist,
         checkerboard_dist |-> checkerboard_dist]

scene_intersect(orig, dir, spheres, material) ==
    plane_and_return(
        sphere_loop(scene_intersect_entry(material), spheres, 1, orig, dir),
        orig, dir)

(* ------------------------- reflect / refract --------------------------- *)
reflect(I, N) == VSub(I, VScale(VScale(N, 2 * FP), Dot(I, N)))

\* The recursive call passes N unchanged.
refract_body_sameN(a) ==
    LET cosi == -Max(-FP, Min(FP, Dot(a.I, a.N)))
    IN  IF cosi < 0
        THEN [kind |-> "call", cosi |-> cosi,
              args |-> [I |-> a.I, N |-> a.N, eta_t |-> a.eta_i, eta_i |-> a.eta_t]]
        ELSE LET eta == Div(a.eta_i, a.eta_t)
                 k == FP - Mul(Mul(eta, eta), FP - Mul(cosi, cosi))
             IN  [kind |-> "return", cosi |-> cosi, k |-> k,
                  value |-> IF k < 0 THEN <<FP, 0, 0>>
                            ELSE VAdd(VScale(a.I, eta),
                                      VScale(a.N, Mul(eta, cosi) - Sqrt(k)))]

\* One activation of refract on the arguments a = [I, N, eta_t, eta_i]:
\* either the recursive call it makes or the value it returns.
refract_body(a) ==
    LET cosi == -Max(-FP, Min(FP, Dot(a.I, a.N)))
    IN  IF cosi < 0
        THEN [kind |-> "call", cosi |-> cosi,
              args |-> [I |-> a.I, N |-> VNeg(a.N),
                        eta_t |-> a.eta_i, eta_i |-> a.eta_t]]
        ELSE LET eta == Div(a.eta_i, a.eta_t)
                 k == FP - Mul(Mul(eta, eta), FP - Mul(cosi, cosi))
             IN  [kind |-> "return", cosi |-> cosi, k |-> k,
                  value |-> IF k < 0 THEN <<FP, 0, 0>>
                            ELSE VAdd(VScale(a.I, eta),
                                      VScale(a.N, Mul(eta, cosi) - Sqrt(k)))]

RECURSIVE refract_run(_)
refract_run(a) ==
    LET b == refract_body(a)
    IN  IF b.kind = "call" THEN refract_run(b.args) ELSE b.value

refract(I, N, eta_t, eta_i) ==
    refract_run([I |-> I, N |-> N, eta_t |-> eta_t, eta_i |-> eta_i])

(* ------------------------------ cast_ray ------------------------------- *)
REFLECION_MAX_DEPTH == 4
Background == <<400, 850, 1000>>

\* pow(b, e) for a fixed-point base and an integer exponent e >= 0
RECURSIVE Pow(_, _)
Pow(b, e) ==
    IF e = 0 THEN FP
    ELSE LET h == Pow(b, e \div 2)
         IN  IF e % 2 = 0 THEN Mul(h, h) ELSE Mul(Mul(h, h), b)

\* point -/+ N * 1e-3, on the side the direction d leaves the surface
offset_orig(d, point, N) ==
    IF Dot(d, N) < 0 THEN VSub(point, VScale(N, 1)) ELSE VAdd(point, VScale(N, 1))

\* The test of the depth cutoff, one level too late.
depth_exceeded_late(depth) == depth > REFLECION_MAX_DEPTH + 1

depth_exceeded(depth) == depth > REFLECION_MAX_DEPTH

\* A light in shadow still adds its specular term.
light_iteration_leak(acc, l, point, N, dir, material, spheres) ==
    LET to_light == VSub(l.position, point)
        light_dir == Normalize(to_light)
        light_distance == Norm(to_light)
        shadow_orig == offset_orig(light_dir, point, N)
        sh == scene_intersect(shadow_orig, light_dir, spheres, DefaultMaterial)
        spec == Mul(Pow(Max(0, Dot(reflect(light_dir, N), dir)),
                        material.specular_exponent), l.intensity)
    IN  IF sh.flag /\ Norm(VSub(sh.hit, shadow_orig)) < light_distance
        THEN [acc EXCEPT !.specular = @ + spec]
        ELSE [diffuse |-> acc.diffuse
                            + Mul(Max(0, Dot(light_dir, N)), l.intensity),
              specular |-> acc.specular + spec]

\* One iteration of the loop over the lights.
light_iteration(acc, l, point, N, dir, material, spheres) ==
    LET to_light == VSub(l.position, point)
        light_dir == Normalize(to_light)
        light_distance == Norm(to_light)
        shadow_orig == offset_orig(light_dir, point, N)
        sh == scene_intersect(shadow_orig, light_dir, spheres, DefaultMaterial)
    IN  IF sh.flag /\ Norm(VSub(sh.hit, shadow_orig)) < light_distance
        THEN acc
        ELSE [diffuse |-> acc.diffuse
                            + Mul(Max(0, Dot(light_dir, N)), l.intensity),
              specular |-> acc.specular
                            + Mul(Pow(Max(0, Dot(reflect(light_dir, N), dir)),
                                      material.specular_exponent), l.intensity)]

RECURSIVE light_loop(_, _, _, _, _, _, _, _)
light_loop(acc, lights, i, point, N, dir, material, spheres) ==
    IF i > Len(lights) THEN acc
    ELSE light_loop(light_iteration(acc, lights[i], point, N, dir, material, spheres),
                    lights, i + 1, point, N, dir, material, spheres)

\* The color returned after both recursive calls and the light loop.
shade_color(material, acc, reflect_color, refract_color) ==
    VAdd(VAdd(VAdd(
        VScale(VScale(material.diffuse_color, acc.diffuse), material.albedo[1]),
        VScale(VScale(<<FP, FP, FP>>, acc.specular), material.albedo[2])),
        VScale(reflect_color, material.albedo[3])),
        VScale(refract_color, material.albedo[4]))

(* ------------------------------ state ---------------------------------- *)
VARIABLES
    si,       \* an activation of scene_intersect: inputs, loop position, locals
    scene,    \* the spheres and lights handed to render / cast_ray
    stack,    \* activations of cast_ray, innermost last
    retval,   \* the color returned by the activation that finished last
    calls,    \* number of cast_ray invocations made so far, by depth
    log,      \* one record per finished cast_ray activation
    shaded,   \* the hit and the light sums of the activation that shaded last
    result,   \* the color of the primary ray, once cast_ray has returned
    rf,       \* an activation chain of refract: arguments, recursion count
    image,        \* which color cast_ray yields for each pixel
    workers,      \* per parallel worker: the columns it still has, its row j
    framebuffer,  \* std::vector<vec3> framebuffer(width * height)
    writes,       \* per cell, the stores the parallel loop made into it
    phase,        \* "fill", "emit", "done" ("idle" outside render)
    ofs,          \* the output stream: header and pixel bytes
    next_cell,    \* position of the emitter's loop over the framebuffer
    reads         \* the cells the emitter has visited, in order

castVars == <<stack, retval, calls, log, shaded, result>>
renderVars ==
    <<image, workers, framebuffer, writes, phase, ofs, next_cell, reads>>
vars == <<si, scene, castVars, rf, renderVars>>

None == [none |-> TRUE]

(* ------------------- inputs of the scene_intersect runs ---------------- *)
V(x, y, z) == <<x * FP, y * FP, z * FP>>

CandidateSpheres ==
    { Sphere(V(0, -8, 20), 2 * FP, glass),       \* below the plane, on the ray
      Sphere(V(0, -6, 20), 2 * FP, mirror),      \* touches the plane on the ray
      Sphere(V(0, -7, 20), 3 * FP, ivory),       \* same hit distance as above
      Sphere(V(0, -2, 20), 1 * FP, red_rubber),  \* above the plane
      Sphere(V(0, 0, 20), 1 * FP, ivory),        \* contains the ray origin
      Sphere(V(0, 3, 20), 1 * FP, glass),        \* behind a downward ray
      Sphere(V(2, -6, 20), 2 * FP, red_rubber),  \* tangent to the ray
      Sphere(V(5, -6, 20), 2 * FP, mirror) }     \* missed by the ray

RECURSIVE SeqsUpTo(_, _)
SeqsUpTo(S, n) ==
    IF n = 0 THEN {<<>>}
    ELSE LET shorter == SeqsUpTo(S, n - 1)
         IN  shorter \cup {Append(q, x) : q \in shorter, x \in S}

NearRays ==
    { [orig |-> V(0, 0, 20), dir |-> V(0, -1, 0)],
      [orig |-> V(0, 0, 20), dir |-> V(0, 1, 0)],
      [orig |-> V(0, -12, 20), dir |-> V(0, 1, 0)],
      [orig |-> V(0, -6, 12), dir |-> V(0, 0, 1)] }
\* Rays whose plane hit lies around the 1000 cutoff; no sphere is near them.
FarRays ==
    { [orig |-> V(0, 995, 20), dir |-> V(0, -1, 0)],
      [orig |-> V(0, 996, 20), dir |-> V(0, -1, 0)] }

SceneInputs ==
    {[ray |-> r, spheres |-> q] : r \in NearRays,
                                  q \in SeqsUpTo(CandidateSpheres, MaxSpheres)}
    \cup {[ray |-> r, spheres |-> <<>>] : r \in FarRays}

(* -------------------- scene_intersect, step by step -------------------- *)
IdleScene == [pc |-> "idle"]
IdleRefract == [pc |-> "idle"]
NoScene == [spheres |-> <<>>, lights |-> <<>>]
IdleRender ==
    /\ image = 0 /\ workers = <<>> /\ framebuffer = <<>> /\ writes = <<>>
    /\ phase = "idle" /\ ofs = None /\ next_cell = 0 /\ reads = <<>>
IdleCast ==
    /\ stack = <<>> /\ retval = None /\ calls = <<>> /\ log = {}
    /\ shaded = None /\ result = None

SceneInit ==
    /\ scene = NoScene /\ IdleCast /\ rf = IdleRefract /\ IdleRender
    /\ \E in \in SceneInputs :
        si = [orig |-> in.ray.orig, dir |-> in.ray.dir, spheres |-> in.spheres,
              pc |-> "loop", i |-> 1,
              st |-> scene_intersect_entry(DefaultMaterial),
              ri |-> None, res |-> None]

\* for (i ...) { if (spheres[i].ray_intersect(...) && dist_i < spheres_dist) ... }
SphereLoopStep ==
    /\ si.pc = "loop"
    /\ si.i <= Len(si.spheres)
    /\ si' = [si EXCEPT
                !.ri = ray_intersect(si.spheres[si.i], si.orig, si.dir),
                !.st = sphere_iteration(si.st, si.spheres[si.i], si.orig, si.dir),
                !.i = si.i + 1]
    /\ UNCHANGED <<scene, castVars, rf, renderVars>>

\* the loop condition fails: plane test and return
PlaneAndReturn ==
    /\ si.pc = "loop"
    /\ si.i > Len(si.spheres)
    /\ si' = [si EXCEPT !.pc = "done",
                        !.res = plane_and_return(si.st, si.orig, si.dir)]
    /\ UNCHANGED <<scene, castVars, rf, renderVars>>

SceneNext == SphereLoopStep \/ PlaneAndReturn

SpecScene == SceneInit /\ [][SceneNext]_vars

(* ----------------------- cast_ray, step by step ------------------------ *)
Light(p, i) == [position |-> p, intensity |-> i]

\* Two mirrors facing each other across the camera, one light between them
\* and one behind the first mirror.
FacingMirrors ==
    [spheres |-> <<Sphere(V(0, 0, 10), 2 * FP, mirror),
                   Sphere(V(0, 0, -10), 2 * FP, mirror)>>,
     lights |-> <<Light(V(0, 0, 16), 1800), Light(V(0, 0, 4), 1500)>>]
\* Concentric shells around the camera: every ray down to depth 4 hits.
Shells ==
    [spheres |-> <<Sphere(V(0, 0, 0), 3 * FP, glass),
                   Sphere(V(0, 0, 0), 5 * FP, ivory),
                   Sphere(V(0, 0, 0), 7 * FP, mirror),
                   Sphere(V(0, 0, 0), 9 * FP, glass),
                   Sphere(V(0, 0, 0), 11 * FP, red_rubber)>>,
     lights |-> <<Light(V(0, 0, 4), 1500), Light(V(0, 0, -8), 1700)>>]
\* A vertical ray onto the checkerboard with a glass sphere under the plane.
OverPlane ==
    [spheres |-> <<Sphere(V(0, -8, 20), 2 * FP, glass)>>,
     lights |-> <<Light(V(0, 10, 20), 1500), Light(V(0, -5, 20), 1700)>>]
Empty == [spheres |-> <<>>, lights |-> <<Light(V(0, 0, 4), 1500)>>]

CastInputs ==
    {[scene |-> sc, orig |-> V(0, 0, 0), dir |-> d] :
        sc \in {FacingMirrors, Shells, Empty}, d \in {V(0, 0, 1), V(0, 0, -1)}}
    \cup {[scene |-> OverPlane, orig |-> V(0, 0, 20), dir |-> d] :
        d \in {V(0, -1, 0), V(0, 1, 0)}}

Frame(orig, dir, depth) ==
    [orig |-> orig, dir |-> dir, depth |-> depth, pc |-> "start",
     point |-> <<0, 0, 0>>, N |-> <<0, 0, 0>>, material |-> DefaultMaterial,
     reflect_color |-> <<0, 0, 0>>, queried |-> FALSE, spawned |-> FALSE]

CastInit ==
    /\ si = IdleScene /\ rf = IdleRefract /\ IdleRender
    /\ \E in \in CastInputs :
        /\ scene = in.scene
        /\ stack = <<Frame(in.orig, in.dir, 0)>>
    /\ retval = None /\ log = {}
    /\ calls = [d \in 0..REFLECION_MAX_DEPTH + 2 |-> IF d = 0 THEN 1 ELSE 0]
    /\ shaded = None /\ result = None

Top == stack[Len(stack)]
Caller == SubSeq(stack, 1, Len(stack) - 1)
SetTop(f) == [stack EXCEPT ![Len(stack)] = f]

\* return value; from the activation f
Return(f, value) ==
    /\ stack' = Caller
    /\ retval' = value
    /\ log' = log \cup {[depth |-> f.depth, queried |-> f.queried,
                         spawned |-> f.spawned, value |-> value]}
    /\ result' = IF Len(stack) = 1 THEN value ELSE result

\* if (depth > REFLECION_MAX_DEPTH || ...) return background: left operand true
CastRayCutoff ==
    /\ stack # <<>> /\ Top.pc = "start"
    /\ depth_exceeded(Top.depth)
    /\ Return(Top, Background)
    /\ UNCHANGED <<si, scene, calls, shaded, rf, renderVars>>

\* ... right operand: scene_intersect reports no hit
CastRayMiss ==
    /\ stack # <<>> /\ Top.pc = "start"
    /\ ~depth_exceeded(Top.depth)
    /\ ~scene_intersect(Top.orig, Top.dir, scene.spheres, DefaultMaterial).flag
    /\ Return([Top EXCEPT !.queried = TRUE], Background)
    /\ UNCHANGED <<si, scene, calls, shaded, rf, renderVars>>

\* a hit: the reflection ray is cast
CastRayHit ==
    /\ stack # <<>> /\ Top.pc = "start"
    /\ ~depth_exceeded(Top.depth)
    /\ LET r == scene_intersect(Top.orig, Top.dir, scene.spheres, DefaultMaterial)
           reflect_dir == reflect(Top.dir, r.N)
           reflect_orig == offset_orig(reflect_dir, r.hit, r.N)
       IN  /\ r.flag
           /\ stack' = Append(SetTop([Top EXCEPT !.pc = "reflect", !.point = r.hit,
                                          !.N = r.N, !.material = r.material,
                                          !.queried = TRUE, !.spawned = TRUE]),
                              Frame(reflect_orig, reflect_dir, Top.depth + 1))
    /\ calls' = [calls EXCEPT ![Top.depth + 1] = @ + 1]
    /\ UNCHANGED <<si, scene, retval, log, shaded, result, rf, renderVars>>

\* the reflection ray has returned: the refraction ray is cast
CastRayReflected ==
    /\ stack # <<>> /\ Top.pc = "reflect"
    /\ LET refract_dir ==
               Normalize(refract(Top.dir, Top.N, Top.material.refractive_index, FP))
           refract_orig == offset_orig(refract_dir, Top.point, Top.N)
       IN  stack' = Append(SetTop([Top EXCEPT !.pc = "refract",
                                               !.reflect_color = retval]),
                           Frame(refract_orig, refract_dir, Top.depth + 1))
    /\ calls' = [calls EXCEPT ![Top.depth + 1] = @ + 1]
    /\ UNCHANGED <<si, scene, retval, log, shaded, result, rf, renderVars>>

\* the refraction ray has returned: light loop and the final color
CastRayShade ==
    /\ stack # <<>> /\ Top.pc = "refract"
    /\ LET acc == light_loop([diffuse |-> 0, specular |-> 0], scene.lights, 1,
                             Top.point, Top.N, Top.dir, Top.material, scene.spheres)
       IN  /\ shaded' = [point |-> Top.point, N |-> Top.N, dir |-> Top.dir,
                         material |-> Top.material, acc |-> acc]
           /\ Return(Top, shade_color(Top.material, acc, Top.reflect_color, retval))
    /\ UNCHANGED <<si, scene, calls, rf, renderVars>>

CastNext ==
    \/ CastRayCutoff
    \/ CastRayMiss
    \/ CastRayHit
    \/ CastRayReflected
    \/ CastRayShade

SpecCast == CastInit /\ [][CastNext]_vars

(* ------------------------ refract, step by step ------------------------ *)
MaxRefractDepth == 3       \* self-recursive calls of refract the model follows

RefractVectors ==
    { <<0, FP, 0>>, <<0, -FP, 0>>, <<FP, 0, 0>>, <<0, 0, FP>>,
      <<600, -800, 0>>, <<800, 600, 0>>, <<-800, -600, 0>>,
      <<0, 2 * FP, 0>> }    \* the last one is not unit: I * N leaves [-1, 1]
RefractIndices == {FP, 1500, 500}

RefractInit ==
    /\ si = IdleScene /\ scene = NoScene /\ IdleCast /\ IdleRender
    /\ \E I \in RefractVectors, N \in RefractVectors,
          eta_t \in RefractIndices, eta_i \in {FP, 1500} :
        LET a == [I |-> I, N |-> N, eta_t |-> eta_t, eta_i |-> eta_i]
        IN  rf = [pc |-> "run", in |-> a, args |-> a, depth |-> 0, result |-> None]

\* if (cosi < 0) return refract(I, -N, eta_i, eta_t);
RefractRecurse ==
    /\ rf.pc = "run"
    /\ rf.depth < MaxRefractDepth
    /\ refract_body(rf.args).kind = "call"
    /\ rf' = [rf EXCEPT !.args = refract_body(rf.args).args, !.depth = @ + 1]
    /\ UNCHANGED <<si, scene, castVars, renderVars>>

\* return k < 0 ? vec3{1,0,0} : I * eta + N * (eta * cosi - sqrt(k));
RefractReturn ==
    /\ rf.pc = "run"
    /\ refract_body(rf.args).kind = "return"
    /\ rf' = [rf EXCEPT !.pc = "done", !.result = refract_body(rf.args).value]
    /\ UNCHANGED <<si, scene, castVars, renderVars>>

RefractNext == RefractRecurse \/ RefractReturn

SpecRefract == RefractInit /\ [][RefractNext]_vars

(* ------------------------------- render -------------------------------- *)
width == 3                 \* const int width (3840 in the program)
height == 2                \* const int height (2160 in the program)
NumThreads == 2            \* threads of the omp parallel for

Cells == 0..(width * height - 1)

\* The scene main() builds.
MainScene ==
    [spheres |-> <<Sphere(<<-3000, 0, 16000>>, 2 * FP, ivory),
                   Sphere(<<-1000, -1500, 12000>>, 2 * FP, glass),
                   Sphere(<<1500, -500, 18000>>, 3 * FP, red_rubber),
                   Sphere(<<7000, 5000, 18000>>, 4 * FP, mirror)>>,
     lights |-> <<Light(<<-20000, 20000, -20000>>, 1500),
                  Light(<<30000, 50000, 25000>>, 1800),
                  Light(<<30000, 20000, -30000>>, 1700)>>]

\* cast_ray is a function of the pixel once the scene is fixed; the render
\* runs take that function from two images: all background, and one with
\* channels above 1.0 that the emitter has to scale down.
Images == {1, 2}
PixelColor(img, i, j) ==
    IF img = 1 THEN Background
    ELSE <<(i + 1) * 700, j * 500 + 250, ((i + j) % 2) * 2000>>

\* The cell index mixes the column with the row without the row stride.
fb_index_nostride(i, j) == i + j

\* framebuffer[i + j * width]
fb_index(i, j) == i + j * width

\* if (max > 1) c = c * (1. / max);
tone_map(c) ==
    LET max == Max(c[1], Max(c[2], c[3]))
    IN  IF max > FP THEN VScale(c, Div(FP, max)) ELSE c

\* (char)(int)(255.f * c[k]) as an unsigned byte
to_byte(x) == Trunc(Mul(255 * FP, x)) % 256

RECURSIVE SortedSeq(_)
SortedSeq(S) ==
    IF S = {} THEN <<>>
    ELSE LET m == CHOOSE x \in S : \A y \in S : x <= y
         IN  <<m>> \o SortedSeq(S \ {m})

\* Entry of render: the framebuffer is allocated, the parallel loop starts
\* with the columns shared out among the threads in some way.
RenderInit ==
    /\ si = IdleScene /\ IdleCast /\ rf = IdleRefract
    /\ scene = MainScene
    /\ image \in Images
    /\ \E owner \in [0..(width - 1) -> 1..NumThreads] :
          workers = [w \in 1..NumThreads |->
                       [cols |-> SortedSeq({i \in 0..(width - 1) : owner[i] = w}),
                        j |-> 0]]
    /\ framebuffer = [c \in Cells |-> <<0, 0, 0>>]
    /\ writes = [c \in Cells |-> 0]
    /\ phase = "fill" /\ ofs = None /\ next_cell = 0 /\ reads = <<>>

\* The loop is left as soon as one thread has finished its share.
all_joined_nowait == \E w \in 1..NumThreads : workers[w].cols = <<>>

\* every thread has finished its share of the parallel loop
all_joined == \A w \in 1..NumThreads : workers[w].cols = <<>>

\* one iteration of the inner loop, by thread w
RenderPixel(w) ==
    /\ phase = "fill"
    /\ workers[w].cols # <<>>
    /\ LET i == Head(workers[w].cols)
           j == workers[w].j
           c == fb_index(i, j)
       IN  /\ framebuffer' = [framebuffer EXCEPT ![c] = PixelColor(image, i, j)]
           /\ writes' = [writes EXCEPT ![c] = @ + 1]
           /\ workers' = [workers EXCEPT ![w] =
                            IF j + 1 < height THEN [@ EXCEPT !.j = j + 1]
                            ELSE [cols |-> Tail(@.cols), j |-> 0]]
    /\ UNCHANGED <<si, scene, castVars, rf, image, phase, ofs, next_cell, reads>>

\* the implicit barrier at the end of the parallel loop; the file is opened
\* and the header written
RenderJoin ==
    /\ phase = "fill"
    /\ all_joined
    /\ phase' = "emit"
    /\ ofs' = [header |-> <<"P6", width, height, 255>>, bytes |-> <<>>]
    /\ UNCHANGED <<si, scene, castVars, rf, image, workers, framebuffer, writes,
                   next_cell, reads>>

\* one iteration of for (vec3& c : framebuffer)
EmitPixel ==
    /\ phase = "emit"
    /\ next_cell < width * height
    /\ LET c == tone_map(framebuffer[next_cell])
       IN  /\ framebuffer' = [framebuffer EXCEPT ![next_cell] = c]
           /\ ofs' = [ofs EXCEPT !.bytes =
                        @ \o <<to_byte(c[1]), to_byte(c[2]), to_byte(c[3])>>]
    /\ reads' = Append(reads, next_cell)
    /\ next_cell' = next_cell + 1
    /\ UNCHANGED <<si, scene, castVars, rf, image, workers, writes, phase>>

\* ofs.close()
EmitClose ==
    /\ phase = "emit"
    /\ next_cell = width * height
    /\ phase' = "done"
    /\ UNCHANGED <<si, scene, castVars, rf, image, workers, framebuffer, writes,
                   ofs, next_cell, reads>>

RenderNext ==
    \/ \E w \in 1..NumThreads : RenderPixel(w)
    \/ RenderJoin
    \/ EmitPixel
    \/ EmitClose

SpecRender == RenderInit /\ [][RenderNext]_vars

(* ========================= properties of cast_ray ====================== *)
RECURSIVE Pow2(_)
Pow2(n) == IF n = 0 THEN 1 ELSE 2 * Pow2(n - 1)
RECURSIVE SumTo(_, _)
SumTo(f, n) == IF n < 0 THEN 0 ELSE f[n] + SumTo(f, n - 1)
TotalCalls == SumTo(calls, REFLECION_MAX_DEPTH + 2)
Returned == result # None

DepthRespected ==
    /\ \A k \in 1..Len(stack) : stack[k].depth <= REFLECION_MAX_DEPTH + 1
    /\ \A e \in log :
          e.depth > REFLECION_MAX_DEPTH =>
              ~e.queried /\ ~e.spawned /\ e.value = Background

\* Steps an activation at depth d can still take, at most: a variant.
RECURSIVE Work(_)
Work(d) == IF d > REFLECION_MAX_DEPTH THEN 1 ELSE 3 + 2 * Work(d + 1)
FrameWork(f) ==
    CASE f.pc = "start" -> Work(f.depth)
      [] f.pc = "reflect" -> 2 + Work(f.depth + 1)
      [] f.pc = "refract" -> 1
RECURSIVE StackWork(_)
StackWork(n) == IF n = 0 THEN 0 ELSE FrameWork(stack[n]) + StackWork(n - 1)
Measure == StackWork(Len(stack))
MeasurePrimed == StackWork(Len(stack))'

\* C1: cast_ray started at depth 0 terminates for every scene and primary
\* ray (every step strictly decreases the natural-number Measure, which is 0
\* exactly when cast_ray has returned); no activation is deeper than depth
\* 5, and an activation whose depth exceeds 4 returns the background color
\* without querying scene_intersect and without casting a reflection or
\* refraction ray.
C1_BoundedRecursion ==
    /\ []DepthRespected
    /\ []((Measure = 0) <=> Returned)
    /\ [][MeasurePrimed < Measure]_vars

\* C1 witness: between the facing mirrors a depth-5 activation has returned
\* the background color and the primary ray has its color.
C1_Witness ==
    /\ scene = FacingMirrors
    /\ Returned
    /\ \E e \in log : e.depth = REFLECION_MAX_DEPTH + 1 /\ e.value = Background

\* C2 as stated: at most 2^5 - 1 = 31 invocations of cast_ray per primary ray.
C2_AtMost31 == TotalCalls <= Pow2(REFLECION_MAX_DEPTH + 1) - 1

\* C2 amended: at most 2^d invocations at each depth d = 0..5, hence at most
\* 2^6 - 1 = 63 invocations per primary ray, of which at most 31 (depths
\* 0..4) query the scene.
C2_AtMost63 ==
    /\ \A d \in 0..REFLECION_MAX_DEPTH + 1 : calls[d] <= Pow2(d)
    /\ calls[REFLECION_MAX_DEPTH + 2] = 0
    /\ TotalCalls <= Pow2(REFLECION_MAX_DEPTH + 2) - 1
    /\ SumTo(calls, REFLECION_MAX_DEPTH) <= Pow2(REFLECION_MAX_DEPTH + 1) - 1

\* C2 witness: a primary ray whose tree is full, 63 invocations.
C2_Witness == Returned /\ TotalCalls = Pow2(REFLECION_MAX_DEPTH + 2) - 1

\* What one light contributes at a hit, computed for that light alone.
LightOccluded(l, point, N) ==
    LET light_dir == Normalize(VSub(l.position, point))
        shadow_orig == offset_orig(light_dir, point, N)
        sh == scene_intersect(shadow_orig, light_dir, scene.spheres, DefaultMaterial)
    IN  sh.flag /\ Norm(VSub(sh.hit, shadow_orig)) < Norm(VSub(l.position, point))
LightDiffuse(l, point, N) ==
    IF LightOccluded(l, point, N) THEN 0
    ELSE Mul(Max(0, Dot(Normalize(VSub(l.position, point)), N)), l.intensity)
LightSpecular(l, point, N, dir, material) ==
    IF LightOccluded(l, point, N) THEN 0
    ELSE Mul(Pow(Max(0, Dot(reflect(Normalize(VSub(l.position, point)), N), dir)),
                 material.specular_exponent), l.intensity)
RECURSIVE SumSeq(_, _)
SumSeq(q, n) == IF n = 0 THEN 0 ELSE q[n] + SumSeq(q, n - 1)

\* C6: each light contributes on its own: a light whose shadow ray hits an
\* occluder closer than the light adds nothing to the diffuse and nothing to
\* the specular sum, every other light adds max(0, light_dir.N) * intensity
\* and its Phong term, whatever happens to the other lights.
C6_ShadowPerLight ==
    shaded # None =>
        LET n == Len(scene.lights)
            dif == [i \in 1..n |-> LightDiffuse(scene.lights[i], shaded.point, shaded.N)]
            spc == [i \in 1..n |-> LightSpecular(scene.lights[i], shaded.point,
                                                 shaded.N, shaded.dir, shaded.material)]
        IN  /\ shaded.acc.diffuse = SumSeq(dif, n)
            /\ shaded.acc.specular = SumSeq(spc, n)

\* C6 witness: at a shaded hit one light is occluded although its Phong term
\* would be positive, and another light adds to the diffuse sum.
C6_Witness ==
    /\ shaded # None
    /\ \E i, j \in 1..Len(scene.lights) :
          /\ LightOccluded(scene.lights[i], shaded.point, shaded.N)
          /\ Pow(Max(0, Dot(reflect(Normalize(VSub(scene.lights[i].position,
                                                    shaded.point)), shaded.N),
                            shaded.dir)),
                 shaded.material.specular_exponent) > 0
          /\ ~LightOccluded(scene.lights[j], shaded.point, shaded.N)
          /\ LightDiffuse(scene.lights[j], shaded.point, shaded.N) > 0

(* ===================== properties of scene_intersect =================== *)
SceneDone == si.pc = "done"
PlaneTaken == SceneDone /\ si.res.checkerboard_dist # FLT_MAX

\* The quantities Sphere::ray_intersect works with, computed on their own.
RootsOf(s, orig, dir) ==
    LET dist == VSub(s.center, orig)
        proj == Dot(dist, dir)
        d2 == Dot(dist, dist) - Mul(proj, proj)
        r2 == Mul(s.radius, s.radius)
        half_chord == IF d2 <= r2 THEN Sqrt(r2 - d2) ELSE 0
    IN  [d2 |-> d2, r2 |-> r2, near |-> proj - half_chord,
         far |-> proj + half_chord]

LastSphere == si.spheres[si.i - 1]
LastRoots == RootsOf(LastSphere, si.orig, si.dir)

\* C7: Sphere::ray_intersect reports no intersection when d2 > radius^2;
\* otherwise it reports the near root proj - half_chord when that is >= 0,
\* else the far root proj + half_chord when that is >= 0, else no
\* intersection; a reported distance is non-negative and is the smallest
\* non-negative root.
C7_RootSelection ==
    si.ri # None =>
        LET r == LastRoots
        IN  IF r.d2 > r.r2 THEN ~si.ri.hit
            ELSE /\ si.ri.hit <=> (r.near >= 0 \/ r.far >= 0)
                 /\ si.ri.hit =>
                      /\ si.ri.t0 >= 0
                      /\ si.ri.t0 = (IF r.near >= 0 THEN r.near ELSE r.far)
                      /\ \A t \in {r.near, r.far} : t >= 0 => si.ri.t0 <= t

\* C7 witness: the ray origin is inside the sphere and the far root is reported.
C7_Witness ==
    /\ si.ri # None
    /\ LastRoots.d2 <= LastRoots.r2
    /\ LastRoots.near < 0
    /\ si.ri.hit
    /\ si.ri.t0 = LastRoots.far

\* The tangent case d2 = radius^2 is reported as a hit.
C7_TangentReached ==
    si.ri # None /\ LastRoots.d2 = LastRoots.r2 /\ si.ri.hit

PermSeq(q, p) == [k \in 1..Len(q) |-> q[p[k]]]
PermsOf(q) == {PermSeq(q, p) : p \in Permutations(1..Len(q))}

HitDistances(spheres, orig, dir) ==
    {ray_intersect(spheres[k], orig, dir).t0 :
        k \in {j \in 1..Len(spheres) : ray_intersect(spheres[j], orig, dir).hit}}
IsMin(d, D) == d \in D /\ \A e \in D : d <= e
\* Two spheres of the sequence are hit at the same, nearest, sphere distance.
NearestTie(spheres, orig, dir) ==
    \E j, k \in 1..Len(spheres) :
        /\ j # k
        /\ ray_intersect(spheres[j], orig, dir).hit
        /\ ray_intersect(spheres[k], orig, dir).hit
        /\ ray_intersect(spheres[j], orig, dir).t0
             = ray_intersect(spheres[k], orig, dir).t0
        /\ IsMin(ray_intersect(spheres[j], orig, dir).t0,
                 HitDistances(spheres, orig, dir))

\* C5 as stated: the result of scene_intersect is the same for every
\* permutation of the sphere sequence, ties between spheres included.
C5_OrderIrrelevant ==
    SceneDone =>
        \A q \in PermsOf(si.spheres) :
            LET r == scene_intersect(si.orig, si.dir, q, DefaultMaterial)
            IN  /\ r.flag = si.res.flag
                /\ r.flag => /\ r.hit = si.res.hit
                             /\ r.N = si.res.N
                             /\ r.material = si.res.material

\* C5 amended: hit flag and hit point are the same for every permutation of
\* the sphere sequence; normal and material are the same too unless two
\* spheres are hit at exactly the same nearest distance.
C5_OrderIrrelevantUnlessTie ==
    SceneDone =>
        \A q \in PermsOf(si.spheres) :
            LET r == scene_intersect(si.orig, si.dir, q, DefaultMaterial)
            IN  /\ r.flag = si.res.flag
                /\ r.flag => r.hit = si.res.hit
                /\ (r.flag /\ ~NearestTie(si.spheres, si.orig, si.dir)) =>
                       /\ r.N = si.res.N
                       /\ r.material = si.res.material

\* C5 witness: two spheres of different materials are both hit, at different
\* distances, and the nearer one is second in the sequence.
C5_Witness ==
    /\ SceneDone /\ si.res.flag
    /\ Len(si.spheres) = 2
    /\ ray_intersect(si.spheres[1], si.orig, si.dir).hit
    /\ ray_intersect(si.spheres[2], si.orig, si.dir).hit
    /\ ray_intersect(si.spheres[2], si.orig, si.dir).t0
         < ray_intersect(si.spheres[1], si.orig, si.dir).t0
    /\ si.spheres[1].material # si.spheres[2].material
    /\ si.res.material = si.spheres[2].material

\* C8 as stated: when the checkerboard plane is the nearest hit the reported
\* material is the default Material with the checker shade as diffuse color,
\* whatever spheres the ray meets farther away.
C8_PlaneMaterialFresh ==
    PlaneTaken =>
        si.res.material =
            [DefaultMaterial EXCEPT !.diffuse_color = checker_color(si.res.hit)]

\* The plane hit of a ray, computed on its own: distance and point, or None.
VisiblePlaneHit(orig, dir) ==
    IF Abs(dir[2]) > 1
    THEN LET d == Div(-(orig[2] + 4 * FP), dir[2])
             pt == VAdd(orig, VScale(dir, d))
         IN  IF d > 0 /\ Abs(pt[1]) < 10 * FP /\ pt[3] > 10 * FP /\ pt[3] < 30 * FP
             THEN [d |-> d, pt |-> pt]
             ELSE None
    ELSE None

\* C4 as stated: scene_intersect returns true exactly when the nearest of the
\* sphere hits and the visible plane hit is below 1000, and then reports hit
\* point, normal and material of that nearest surface, a sphere winning a
\* tie against the plane.
C4_NearestSurface ==
    SceneDone =>
        LET D == HitDistances(si.spheres, si.orig, si.dir)
            ph == VisiblePlaneHit(si.orig, si.dir)
            all == D \cup (IF ph = None THEN {} ELSE {ph.d})
            sphereWins == D # {} /\ \E d \in D : IsMin(d, all)
        IN  /\ si.res.flag <=> \E d \in all : d < 1000 * FP
            /\ (si.res.flag /\ sphereWins) =>
                 \E k \in 1..Len(si.spheres) :
                    LET ri == ray_intersect(si.spheres[k], si.orig, si.dir)
                        hit == VAdd(si.orig, VScale(si.dir, ri.t0))
                    IN  /\ ri.hit /\ IsMin(ri.t0, all)
                        /\ si.res.hit = hit
                        /\ si.res.N = Normalize(VSub(hit, si.spheres[k].center))
                        /\ si.res.material = si.spheres[k].material
            /\ (si.res.flag /\ ~sphereWins) =>
                 /\ si.res.hit = ph.pt
                 /\ si.res.N = <<0, FP, 0>>
                 /\ si.res.material =
                      [DefaultMaterial EXCEPT !.diffuse_color = checker_color(ph.pt)]
\* Everything C4 says except the material reported for a plane hit; this
\* part holds, so C4 fails through the plane's material alone.
NearestSurfaceGeometry ==
    SceneDone =>
        LET D == HitDistances(si.spheres, si.orig, si.dir)
            ph == VisiblePlaneHit(si.orig, si.dir)
            all == D \cup (IF ph = None THEN {} ELSE {ph.d})
            sphereWins == D # {} /\ \E d \in D : IsMin(d, all)
        IN  /\ si.res.flag <=> \E d \in all : d < 1000 * FP
            /\ (si.res.flag /\ sphereWins) =>
                 \E k \in 1..Len(si.spheres) :
                    LET ri == ray_intersect(si.spheres[k], si.orig, si.dir)
                        hit == VAdd(si.orig, VScale(si.dir, ri.t0))
                    IN  /\ ri.hit /\ IsMin(ri.t0, all)
                        /\ si.res.hit = hit
                        /\ si.res.N = Normalize(VSub(hit, si.spheres[k].center))
                        /\ si.res.material = si.spheres[k].material
            /\ (si.res.flag /\ ~sphereWins) =>
                 /\ si.res.hit = ph.pt
                 /\ si.res.N = <<0, FP, 0>>
                 /\ si.res.material.diffuse_color = checker_color(ph.pt)

(* ========================== properties of refract ====================== *)
Cosi(a) == -Max(-FP, Min(FP, Dot(a.I, a.N)))
Snell(a) ==
    LET eta == Div(a.eta_i, a.eta_t)
        k == FP - Mul(Mul(eta, eta), FP - Mul(Cosi(a), Cosi(a)))
    IN  IF k < 0 THEN <<FP, 0, 0>>
        ELSE VAdd(VScale(a.I, eta), VScale(a.N, Mul(eta, Cosi(a)) - Sqrt(k)))
Swapped(a) == [I |-> a.I, N |-> VNeg(a.N), eta_t |-> a.eta_i, eta_i |-> a.eta_t]

\* C9: a call of refract makes at most one self-recursive call: when
\* cosi < 0 it calls itself once with N negated and eta_i, eta_t swapped, in
\* that inner call cosi >= 0, and the call that returns yields the sentinel
\* {1,0,0} when k < 0 and the Snell direction otherwise.
C9_OneSwap ==
    /\ rf.pc # "idle" =>
          /\ rf.depth <= 1
          /\ rf.depth = 1 =>
                /\ Cosi(rf.in) < 0
                /\ rf.args = Swapped(rf.in)
                /\ Cosi(rf.args) >= 0
                /\ rf.pc = "run" => refract_body(rf.args).kind = "return"
          /\ rf.depth = 0 => rf.args = rf.in
    /\ rf.pc = "done" =>
          /\ rf.depth = (IF Cosi(rf.in) < 0 THEN 1 ELSE 0)
          /\ rf.result = Snell(rf.args)

\* C9 witness: a ray from inside the medium: one swap, then total internal
\* reflection and the sentinel.
C9_Witness ==
    /\ rf.pc = "done" /\ rf.depth = 1
    /\ rf.result = <<FP, 0, 0>>
    /\ rf.in.I # <<FP, 0, 0>>

(* ========================== properties of render ======================= *)
Bijective ==
    /\ \A i \in 0..(width - 1), j \in 0..(height - 1) : fb_index(i, j) \in Cells
    /\ \A i1, i2 \in 0..(width - 1), j1, j2 \in 0..(height - 1) :
          fb_index(i1, j1) = fb_index(i2, j2) => (i1 = i2 /\ j1 = j2)
    /\ \A c \in Cells : \E i \in 0..(width - 1), j \in 0..(height - 1) :
          fb_index(i, j) = c

FillDisjoint ==
    phase # "idle" =>
        /\ \A c \in Cells : writes[c] <= 1
        /\ (\A w \in 1..NumThreads : workers[w].cols = <<>>) =>
              \A c \in Cells : writes[c] = 1
        /\ Bijective

PixelBytes(k) ==
    LET c == tone_map(PixelColor(image, k % width, k \div width))
    IN  <<to_byte(c[1]), to_byte(c[2]), to_byte(c[3])>>

\* C10: nothing is emitted before every thread has joined and every cell has
\* its single store; the emitter then visits the cells once each in index
\* order 0 .. width*height-1, which is row-major from the top row, and writes
\* after the header exactly three bytes per cell, width*height*3 in all.
C10_EmitAfterFill ==
    phase # "idle" =>
        /\ phase = "fill" => (ofs = None /\ reads = <<>> /\ next_cell = 0)
        /\ phase # "fill" =>
              /\ \A w \in 1..NumThreads : workers[w].cols = <<>>
              /\ \A c \in Cells : writes[c] = 1
              /\ ofs.header = <<"P6", width, height, 255>>
              /\ reads = [k \in 1..next_cell |-> k - 1]
              /\ Len(ofs.bytes) = 3 * next_cell
              /\ \A k \in 0..(next_cell - 1) :
                    SubSeq(ofs.bytes, 3 * k + 1, 3 * k + 3) = PixelBytes(k)
        /\ phase = "done" => Len(ofs.bytes) = width * height * 3

\* C10 witness: the file is complete and holds a pixel that was scaled down.
C10_Witness ==
    /\ phase = "done"
    /\ Len(ofs.bytes) = width * height * 3
    /\ \E k \in Cells : framebuffer[k] # PixelColor(image, k % width, k \div width)
====
